---------------------------- MODULE Spec2Model ----------------------------
(***************************************************************************)
(* Model of src/url_analyzer.py: URLAnalyzer.fetch_content, fetch_arxiv,  *)
(* create_analysis_prompt and analyze.                                     *)
(*                                                                         *)
(* A Python str is a sequence of one-character strings.  The fixed pieces  *)
(* of the prompt template are single multi-character elements of such a    *)
(* sequence, so they can never be confused with interpolated text.         *)
(* A value that may be None (Optional[str]) is None or Str(s).             *)
(* A Python dict is a function from its keys; the key set varies.          *)
(***************************************************************************)
EXTENDS Integers, Sequences, FiniteSets, TLC

VARIABLES
    op,              \* the operation the caller ran last: "idle", "fetch_content", "create_analysis_prompt", "analyze"
    url,             \* argument url
    given,           \* how url was put together: [shape, tail]
    pasted,          \* argument pasted_content of analyze
    response,        \* outcome of requests.get, or NoCall
    lookup,          \* outcome of the arxiv lookup, or NoCall
    completion,      \* outcome of client.beta.messages.create, or NoCall
    paper_id,        \* the identifier handed to arxiv.Search, None when there was no lookup
    resolved,        \* the dict as fetch_content returned it
    record,          \* content_data as it is now
    prompt,          \* the prompt handed to the completion call, None when there was none
    result,          \* the value analyze returned
    exc,             \* the exception that left the operation, "none" when it returned
    httpCalls,       \* calls of requests.get in the operation
    lookupCalls,     \* calls of the arxiv lookup in the operation
    completionCalls, \* calls of messages.create in the operation
    formatted        \* outcomes of the caller's create_analysis_prompt calls on record, in order

vars == <<op, url, given, pasted, response, lookup, completion, paper_id, resolved,
          record, prompt, result, exc, httpCalls, lookupCalls, completionCalls, formatted>>

---------------------------------------------------------------------------
(* Bounds of the model *)

\* longest <id><version> text enumerated in an arxiv URL
MaxIdLen == 2

\* how often the caller formats one resolved record
MaxFormatCalls == 2

(* Program constants *)

\* response.text[:50000]
FetchLimit == 50000

\* content[:10000]
PromptLimit == 10000

---------------------------------------------------------------------------
(* Python values *)

None == [none |-> TRUE]

Str(s) == [none |-> FALSE, s |-> s]

NoCall == [kind |-> "no_call"]

NoRecord == [type |-> "no_record"]

\* bool(x) of an Optional[str]
Truthy(x) == x # None /\ Len(x.s) > 0

\* d.get(k, default)
Get(d, k, default) == IF k \in DOMAIN d THEN d[k] ELSE default

\* d[k] = v
SetItem(d, k, v) == [x \in DOMAIN d \cup {k} |-> IF x = k THEN v ELSE d[x]]

Min(a, b) == IF a < b THEN a ELSE b

\* s[:k], k >= 0
SliceTo(s, k) == SubSeq(s, 1, Min(k, Len(s)))

\* pat in s
Contains(s, pat) ==
    \E i \in 1..(Len(s) - Len(pat) + 1) : SubSeq(s, i, i + Len(pat) - 1) = pat

RECURSIVE FindFrom(_, _, _)
\* the first position >= i where pat occurs in s, 0 when there is none
FindFrom(s, pat, i) ==
    IF i + Len(pat) - 1 > Len(s) THEN 0
    ELSE IF SubSeq(s, i, i + Len(pat) - 1) = pat THEN i
    ELSE FindFrom(s, pat, i + 1)

\* s.find(pat) + 1, 0 when pat is not in s
Find(s, pat) == FindFrom(s, pat, 1)

RECURSIVE Split(_, _)
\* s.split(sep)
Split(s, sep) ==
    LET i == Find(s, sep)
    IN  IF i = 0 THEN <<s>>
        ELSE <<SubSeq(s, 1, i - 1)>> \o Split(SubSeq(s, i + Len(sep), Len(s)), sep)

RECURSIVE Replace(_, _, _)
\* s.replace(old, new)
Replace(s, old, new) ==
    LET i == Find(s, old)
    IN  IF i = 0 THEN s
        ELSE SubSeq(s, 1, i - 1) \o new \o Replace(SubSeq(s, i + Len(old), Len(s)), old, new)

RECURSIVE Join(_, _)
\* sep.join(parts)
Join(sep, parts) ==
    IF Len(parts) = 0 THEN <<>>
    ELSE IF Len(parts) = 1 THEN parts[1]
    ELSE parts[1] \o sep \o Join(sep, Tail(parts))

\* xs[-1]
Last(xs) == xs[Len(xs)]

\* f"{x}" of an Optional[str]
Format(x) == IF x = None THEN <<"N", "o", "n", "e">> ELSE x.s

---------------------------------------------------------------------------
(* String literals of the source *)

ArxivMarker == <<"a","r","x","i","v",".","o","r","g">>
TwitterMarker == <<"t","w","i","t","t","e","r",".","c","o","m">>
XMarker == <<"x",".","c","o","m">>
AbsPrefix == <<"a","b","s","/">>
PdfPrefix == <<"p","d","f","/">>
PdfSuffix == <<".","p","d","f">>
Slash == <<"/">>
LetterV == <<"v">>
CommaSpace == <<",", " ">>
Unknown == <<"U","n","k","n","o","w","n">>
NotAvailable == <<"N","o","t"," ","a","v","a","i","l","a","b","l","e">>
ContentNotProvided ==
    <<"C","o","n","t","e","n","t"," ","n","o","t"," ","p","r","o","v","i","d","e","d">>

\* the text analyze returns when the content has to be pasted and was not
ManualInputMessage ==
    <<"This URL requires manual content paste. Please provide the content.">>

ErrorPrefix == <<"Error calling Claude API: ">>

\* base_prompt: the instruction, the ten section headers and the recommendation, in order
BasePrompt ==
    <<"You are an expert [...] Provide your analysis in this EXACT format:",
      "## ONE-LINER", "## KEY INNOVATION", "## WHY IT MATTERS", "## MAIN INSIGHTS",
      "## HOW IT WORKS", "## KEY RESULTS", "## LIMITATIONS", "## CONNECTIONS",
      "## WHO SHOULD READ THIS", "## TLDR", "## SHOULD YOU READ THE FULL VERSION?",
      "---", "Now analyze this content:">>

---------------------------------------------------------------------------
(* fetch_arxiv *)

\* the paper identifier cut out of the URL
ExtractPaperId(u) ==
    IF Contains(u, AbsPrefix)
    THEN Split(Last(Split(u, AbsPrefix)), LetterV)[1]
    ELSE IF Contains(u, PdfPrefix)
    THEN Split(Replace(Last(Split(u, PdfPrefix)), PdfSuffix, <<>>), LetterV)[1]
    ELSE Split(Last(Split(u, Slash)), LetterV)[1]

\* the dict returned when the lookup gave a paper
ArxivRecord(u, paper) ==
    [url |-> u, type |-> "arxiv", title |-> paper.title, authors |-> paper.authors,
     abstract |-> paper.summary, needs_paste |-> FALSE]

\* the dict returned from the except branch
ArxivFallback(u) ==
    [url |-> u, type |-> "arxiv", content |-> None, needs_paste |-> TRUE]

\* fetch_arxiv(url) when the lookup ends as lo: any exception of the lookup
\* (an error, or StopIteration when there is no result) is caught
FetchArxiv(u, lo) ==
    [rec |-> IF lo.kind = "ok" THEN ArxivRecord(u, lo.paper) ELSE ArxivFallback(u),
     exc |-> "none", http |-> 0, lookup |-> 1, paper_id |-> Str(ExtractPaperId(u))]

---------------------------------------------------------------------------
(* fetch_content *)

\* changed: the second social-media marker is not tested
IsSocialTwitterOnly(u) == Contains(u, TwitterMarker)

\* 'twitter.com' in url or 'x.com' in url
IsSocial(u) == Contains(u, TwitterMarker) \/ Contains(u, XMarker)

TweetRecord(u) ==
    [url |-> u, type |-> "tweet", content |-> None, needs_paste |-> TRUE]

\* changed: the response text is stored whole
ArticleContentUncut(text) == text

\* response.text[:50000]
ArticleContent(text) == SliceTo(text, FetchLimit)

\* changed: the error raise_for_status raises is not caught
FetchHtmlUncaught(u, ho) ==
    IF ho.kind = "http_error"
    THEN [rec |-> NoRecord, exc |-> "HTTPError", http |-> 1, lookup |-> 0, paper_id |-> None]
    ELSE [rec |-> IF ho.kind = "ok"
                  THEN [url |-> u, type |-> "article",
                        content |-> Str(SliceTo(ho.text, FetchLimit)), needs_paste |-> FALSE]
                  ELSE [url |-> u, type |-> "unknown", content |-> None, needs_paste |-> TRUE],
          exc |-> "none", http |-> 1, lookup |-> 0, paper_id |-> None]

\* the else branch: requests.get, raise_for_status, and the except around both
FetchHtml(u, ho) ==
    [rec |-> IF ho.kind = "ok"
             THEN [url |-> u, type |-> "article", content |-> Str(ArticleContent(ho.text)),
                   needs_paste |-> FALSE]
             ELSE [url |-> u, type |-> "unknown", content |-> None, needs_paste |-> TRUE],
     exc |-> "none", http |-> 1, lookup |-> 0, paper_id |-> None]

\* changed: the social-media test comes before the arxiv test
FetchContentSocialFirst(u, ho, lo) ==
    IF IsSocial(u)
    THEN [rec |-> TweetRecord(u), exc |-> "none", http |-> 0, lookup |-> 0, paper_id |-> None]
    ELSE IF Contains(u, ArxivMarker) THEN FetchArxiv(u, lo)
    ELSE FetchHtml(u, ho)

\* fetch_content(url) when requests.get would end as ho and the lookup as lo
FetchContent(u, ho, lo) ==
    IF Contains(u, ArxivMarker) THEN FetchArxiv(u, lo)
    ELSE IF IsSocial(u)
    THEN [rec |-> TweetRecord(u), exc |-> "none", http |-> 0, lookup |-> 0, paper_id |-> None]
    ELSE FetchHtml(u, ho)

---------------------------------------------------------------------------
(* create_analysis_prompt *)

\* content_str of the three branches; "TypeError" when None is sliced
ContentStr(cd) ==
    IF cd.type = "arxiv"
    THEN [exc |-> "none",
          value |-> <<"\nPAPER: ">> \o Get(cd, "title", Unknown)
                    \o <<"\nAUTHORS: ">> \o Join(CommaSpace, Get(cd, "authors", <<>>))
                    \o <<"\nURL: ">> \o cd.url
                    \o <<"\n\nABSTRACT:\n">> \o Get(cd, "abstract", NotAvailable) \o <<"\n">>]
    ELSE IF cd.type = "tweet"
    THEN [exc |-> "none",
          value |-> <<"\nTWEET/THREAD from ">> \o cd.url \o <<":\n">>
                    \o Format(Get(cd, "content", Str(ContentNotProvided))) \o <<"\n">>]
    ELSE LET content == Get(cd, "content", Str(ContentNotProvided))
         IN  IF content = None
             THEN [exc |-> "TypeError", value |-> <<>>]
             ELSE [exc |-> "none",
                   value |-> <<"\nURL: ">> \o cd.url \o <<"\nCONTENT:\n">>
                             \o SliceTo(content.s, PromptLimit)
                             \o <<"  # Limit for token management\n">>]

\* changed: the content is taken out of the dict with pop() instead of read with get()
CreateAnalysisPromptPop(cd) ==
    LET c == ContentStr(cd)
    IN  [exc |-> c.exc,
         value |-> IF c.exc = "none" THEN BasePrompt \o c.value ELSE <<>>,
         data |-> IF cd.type = "arxiv" THEN cd
                  ELSE [k \in DOMAIN cd \ {"content"} |-> cd[k]]]

\* create_analysis_prompt(content_data): what it returns or raises, and the dict after the call
CreateAnalysisPrompt(cd) ==
    LET c == ContentStr(cd)
    IN  [exc |-> c.exc,
         value |-> IF c.exc = "none" THEN BasePrompt \o c.value ELSE <<>>,
         data |-> cd]

---------------------------------------------------------------------------
(* analyze *)

\* changed: only None counts as no pasted content, the empty string does not
MissingManualInputNoneOnly(cd, p) == cd.needs_paste /\ p = None

\* content_data['needs_paste'] and not pasted_content
MissingManualInput(cd, p) == cd.needs_paste /\ ~Truthy(p)

\* content_data after the paste handling
Amended(cd, p) ==
    IF cd.needs_paste /\ Truthy(p) THEN SetItem(cd, "content", p) ELSE cd

\* changed: a failed call is made a second time
CallClaudeRetry(pr, co) ==
    [ret |-> IF co.kind = "ok" THEN co.text ELSE ErrorPrefix \o co.message,
     exc |-> "none", calls |-> IF co.kind = "ok" THEN 1 ELSE 2]

\* the try around messages.create and response.content[0].text
CallClaude(pr, co) ==
    [ret |-> IF co.kind = "ok" THEN co.text ELSE ErrorPrefix \o co.message,
     exc |-> "none", calls |-> 1]

\* analyze(url, pasted_content) under the collaborators' outcomes ho, lo, co
Analyze(u, p, ho, lo, co) ==
    LET f == FetchContent(u, ho, lo)
        base == [ret |-> None, exc |-> "none", resolved |-> f.rec, data |-> f.rec,
                 prompt |-> None, http |-> f.http, lookup |-> f.lookup,
                 paper_id |-> f.paper_id, calls |-> 0]
    IN  IF f.exc # "none" THEN [base EXCEPT !.exc = f.exc]
        ELSE IF MissingManualInput(f.rec, p)
        THEN [base EXCEPT !.ret = Str(ManualInputMessage)]
        ELSE LET pr == CreateAnalysisPrompt(Amended(f.rec, p))
             IN  IF pr.exc # "none"
                 THEN [base EXCEPT !.exc = pr.exc, !.data = pr.data]
                 ELSE LET c == CallClaude(pr.value, co)
                      IN  [base EXCEPT !.data = pr.data, !.prompt = Str(pr.value),
                                       !.calls = c.calls, !.exc = c.exc,
                                       !.ret = IF c.exc = "none" THEN Str(c.ret) ELSE None]

---------------------------------------------------------------------------
(* Inputs: the URLs the caller passes and the outcomes of the collaborators *)

IdChars == {"1", ".", "v"}

\* the identifier 1234.5678 as it is, and with the version suffixes v1 and v2
ExampleTails ==
    {<<"1","2","3","4",".","5","6","7","8">>,
     <<"1","2","3","4",".","5","6","7","8","v","1">>,
     <<"1","2","3","4",".","5","6","7","8","v","2">>}

\* the <id><version> texts of the arxiv URLs: the examples, and every text over
\* IdChars of up to MaxIdLen characters
Tails == ExampleTails \cup UNION {[1..n -> IdChars] : n \in 1..MaxIdLen}

\* what precedes the path of an arxiv URL; the second is a share link of a
\* social-media site that carries an arxiv address
ArxivPrefixes ==
    {<<"h","t","t","p","s",":","/","/","a","r","x","i","v",".","o","r","g","/">>,
     <<"h","t","t","p","s",":","/","/","x",".","c","o","m","/","s","h","a","r","e","?","u","=",
       "a","r","x","i","v",".","o","r","g","/">>}

ArxivUrl(prefix, shape, tail) ==
    IF shape = "abs" THEN prefix \o AbsPrefix \o tail
    ELSE IF shape = "pdf" THEN prefix \o PdfPrefix \o tail \o PdfSuffix
    ELSE prefix \o tail

ArxivInputs ==
    {[url |-> ArxivUrl(prefix, shape, tail), shape |-> shape, tail |-> tail] :
        prefix \in ArxivPrefixes, shape \in {"abs", "pdf", "last"}, tail \in Tails}

OtherUrls ==
    {<<"h","t","t","p","s",":","/","/","t","w","i","t","t","e","r",".","c","o","m","/","a","/",
       "s","t","a","t","u","s","/","1">>,
     <<"h","t","t","p","s",":","/","/","x",".","c","o","m","/","a">>,
     <<"h","t","t","p","s",":","/","/","b","o","x",".","c","o","m","/","f">>,
     <<"h","t","t","p","s",":","/","/","b","l","o","g",".","o","r","g","/","p","o","s","t">>,
     <<"h","t","t","p",":","/","/","b","a","d",".","h","o","s","t","/">>}

UrlInputs ==
    ArxivInputs \cup {[url |-> u, shape |-> "other", tail |-> <<>>] : u \in OtherUrls}

\* a document of n characters whose characters differ by position
Body(n) == [i \in 1..n |-> IF i % 7 = 0 THEN "g" ELSE IF i % 2 = 0 THEN "e" ELSE "o"]

BodyLens ==
    {0, 1, PromptLimit - 1, PromptLimit, PromptLimit + 1,
     FetchLimit - 1, FetchLimit, FetchLimit + 1, FetchLimit + PromptLimit}

\* requests.get returns, or raises; raise_for_status raises on a non-success status
HttpOutcomes ==
    {[kind |-> "ok", text |-> Body(n)] : n \in BodyLens}
    \cup {[kind |-> "http_error"], [kind |-> "timeout"]}

Papers ==
    {[title |-> <<"E","x","a","m","p","l","e"," ","P","a","p","e","r">>,
      authors |-> << <<"A","."," ","O","n","e">>, <<"B","."," ","T","w","o">> >>,
      summary |-> <<"T","h","i","s"," ","p","a","p","e","r",".",".",".">>],
     [title |-> <<"O","n"," ","M","a","p","s">>,
      authors |-> << <<"C","."," ","T","h","r","e","e">> >>,
      summary |-> <<"W","e"," ","s","h","o","w",".">>]}

\* the lookup gives a paper, gives nothing (next() raises StopIteration), or raises
LookupOutcomes ==
    {[kind |-> "ok", paper |-> paper] : paper \in Papers}
    \cup {[kind |-> "no_results"], [kind |-> "error"]}

\* messages.create returns a message with text, raises, or returns an empty
\* content list (content[0] raises IndexError inside the try)
CompletionOutcomes ==
    {[kind |-> "ok", text |-> <<"## ONE-LINER", "a", "n", "s", "w", "e", "r">>],
     [kind |-> "error", message |-> <<"overloaded_error">>],
     [kind |-> "empty", message |-> <<"list index out of range">>]}

PastedInputs == {None, Str(<<>>), Str(<<"h","e","l","l","o">>)}

\* the outcomes to choose from for the calls fetch_content(u) makes: a call
\* that is not made has no outcome (NoCall)
HttpOutcomesFor(u) ==
    IF FetchContent(u, NoCall, NoCall).http > 0 THEN HttpOutcomes ELSE {NoCall}

LookupOutcomesFor(u) ==
    IF FetchContent(u, NoCall, NoCall).lookup > 0 THEN LookupOutcomes ELSE {NoCall}

---------------------------------------------------------------------------
(* The operations a caller runs *)

Init ==
    /\ op = "idle"
    /\ url = <<>>
    /\ given = [shape |-> "none", tail |-> <<>>]
    /\ pasted = None
    /\ response = NoCall
    /\ lookup = NoCall
    /\ completion = NoCall
    /\ paper_id = None
    /\ resolved = NoRecord
    /\ record = NoRecord
    /\ prompt = None
    /\ result = None
    /\ exc = "none"
    /\ httpCalls = 0
    /\ lookupCalls = 0
    /\ completionCalls = 0
    /\ formatted = <<>>

\* the caller runs fetch_content(url)
CallFetchContent ==
    /\ op = "idle"
    /\ \E in \in UrlInputs :
       \E ho \in HttpOutcomesFor(in.url), lo \in LookupOutcomesFor(in.url) :
        LET f == FetchContent(in.url, ho, lo)
        IN  /\ op' = "fetch_content"
            /\ url' = in.url
            /\ given' = [shape |-> in.shape, tail |-> in.tail]
            /\ response' = ho
            /\ lookup' = lo
            /\ paper_id' = f.paper_id
            /\ resolved' = f.rec
            /\ record' = f.rec
            /\ exc' = f.exc
            /\ httpCalls' = f.http
            /\ lookupCalls' = f.lookup
    /\ UNCHANGED <<pasted, completion, prompt, result, completionCalls, formatted>>

\* the caller runs create_analysis_prompt on the record fetch_content returned
CallCreateAnalysisPrompt ==
    /\ op \in {"fetch_content", "create_analysis_prompt"}
    /\ exc = "none"
    /\ Len(formatted) < MaxFormatCalls
    /\ LET r == CreateAnalysisPrompt(record)
       IN  /\ formatted' = Append(formatted, [exc |-> r.exc, value |-> r.value])
           /\ record' = r.data
    /\ op' = "create_analysis_prompt"
    /\ UNCHANGED <<url, given, pasted, response, lookup, completion, paper_id, resolved,
                   prompt, result, exc, httpCalls, lookupCalls, completionCalls>>

\* the caller runs analyze(url, pasted_content)
CallAnalyze ==
    /\ op = "idle"
    /\ \E in \in UrlInputs, p \in PastedInputs :
       \E ho \in HttpOutcomesFor(in.url), lo \in LookupOutcomesFor(in.url),
          co \in CompletionOutcomes :
        LET a == Analyze(in.url, p, ho, lo, co)
        IN  /\ op' = "analyze"
            /\ url' = in.url
            /\ given' = [shape |-> in.shape, tail |-> in.tail]
            /\ pasted' = p
            /\ response' = ho
            /\ lookup' = lo
            /\ completion' = IF a.calls > 0 THEN co ELSE NoCall
            /\ paper_id' = a.paper_id
            /\ resolved' = a.resolved
            /\ record' = a.data
            /\ prompt' = a.prompt
            /\ result' = a.ret
            /\ exc' = a.exc
            /\ httpCalls' = a.http
            /\ lookupCalls' = a.lookup
            /\ completionCalls' = a.calls
    /\ UNCHANGED formatted

\* the caller is done with the record and the result
Discard ==
    /\ op # "idle"
    /\ op' = "idle"
    /\ url' = <<>>
    /\ given' = [shape |-> "none", tail |-> <<>>]
    /\ pasted' = None
    /\ response' = NoCall
    /\ lookup' = NoCall
    /\ completion' = NoCall
    /\ paper_id' = None
    /\ resolved' = NoRecord
    /\ record' = NoRecord
    /\ prompt' = None
    /\ result' = None
    /\ exc' = "none"
    /\ httpCalls' = 0
    /\ lookupCalls' = 0
    /\ completionCalls' = 0
    /\ formatted' = <<>>

Next == CallFetchContent \/ CallCreateAnalysisPrompt \/ CallAnalyze \/ Discard

Spec == Init /\ [][Next]_vars

---------------------------------------------------------------------------
(* Properties *)

\* the operation that ran resolved the URL (every operation but the idle state)
Resolved == op # "idle"

\* the caller passed no text: None or the empty string
NoTextSupplied == pasted = None \/ pasted = Str(<<>>)

\* the part of a prompt after the fixed preamble
ContentBlock(pr) == SubSeq(pr, Len(BasePrompt) + 1, Len(pr))

\* C1: when analyze resolves a record that needs pasted content and the caller
\* passed none (None or the empty string), analyze returns the request for
\* manual input and the completion service is not called, whatever the category.
C1_MissingInputRejected ==
    (op = "analyze" /\ resolved.needs_paste /\ NoTextSupplied)
        => /\ result = Str(ManualInputMessage)
           /\ completionCalls = 0
           /\ prompt = None
           /\ exc = "none"

C1_Witness ==
    /\ op = "analyze"
    /\ resolved.type = "arxiv"
    /\ resolved.needs_paste
    /\ pasted = Str(<<>>)
    /\ result = Str(ManualInputMessage)

\* C2 as stated: for every URL that contains 'twitter.com' or 'x.com',
\* fetch_content returns needs_paste = True and makes no network call.
C2_SocialNeverNetwork ==
    (Resolved /\ (Contains(url, TwitterMarker) \/ Contains(url, XMarker)))
        => /\ resolved.needs_paste
           /\ httpCalls = 0
           /\ lookupCalls = 0

\* C2 amended: for every URL that contains 'twitter.com' or 'x.com' and does not
\* contain 'arxiv.org', fetch_content returns a tweet record with
\* needs_paste = True and makes no network call.
C2_SocialWithoutArxivMarker ==
    (/\ Resolved
     /\ Contains(url, TwitterMarker) \/ Contains(url, XMarker)
     /\ ~Contains(url, ArxivMarker))
        => /\ resolved.type = "tweet"
           /\ resolved.needs_paste
           /\ httpCalls = 0
           /\ lookupCalls = 0

C2_Witness ==
    /\ op = "fetch_content"
    /\ Contains(url, XMarker)
    /\ ~Contains(url, TwitterMarker)
    /\ ~Contains(url, ArxivMarker)
    /\ resolved.needs_paste
    /\ httpCalls = 0

\* C3: for every URL that contains 'arxiv.org', fetch_content gives the record
\* the type arxiv, also when the URL contains a social-media marker and whether
\* the lookup succeeds or fails.
C3_ArxivFirst ==
    (Resolved /\ Contains(url, ArxivMarker)) => resolved.type = "arxiv"

C3_Witness ==
    /\ op = "fetch_content"
    /\ Contains(url, ArxivMarker)
    /\ Contains(url, XMarker)
    /\ lookup.kind = "error"
    /\ resolved.type = "arxiv"

\* the keys every record has, with values of the right kind
WellFormed(r) ==
    /\ {"url", "type", "needs_paste"} \subseteq DOMAIN r
    /\ r.url = url
    /\ r.type \in {"arxiv", "tweet", "article", "unknown"}
    /\ r.needs_paste \in BOOLEAN

\* the body text of a record: the abstract of a paper, the content otherwise
BodyText(r) ==
    IF r.type = "arxiv"
    THEN IF "abstract" \in DOMAIN r THEN Str(r.abstract) ELSE None
    ELSE Get(r, "content", None)

\* C4: under every outcome of the HTTP fetch and of the lookup, fetch_content
\* returns (no exception leaves it) a well-formed record in which needs_paste
\* is true exactly when the body text is absent.
C4_NeedsPasteIffBodyAbsent ==
    Resolved
        => /\ (op = "fetch_content" => exc = "none")
           /\ WellFormed(resolved)
           /\ resolved.needs_paste <=> (BodyText(resolved) = None)

C4_Witness ==
    /\ op = "fetch_content"
    /\ response.kind = "http_error"
    /\ exc = "none"
    /\ resolved.needs_paste
    /\ BodyText(resolved) = None

Digits == {"0", "1", "2", "3", "4", "5", "6", "7", "8", "9"}

RECURSIVE TrailingDigits(_)
\* how many digits t ends with
TrailingDigits(t) ==
    IF Len(t) > 0 /\ t[Len(t)] \in Digits
    THEN 1 + TrailingDigits(SubSeq(t, 1, Len(t) - 1))
    ELSE 0

\* t without a trailing version suffix: a 'v' followed by digits up to the end
WithoutVersion(t) ==
    LET k == TrailingDigits(t)
    IN  IF k > 0 /\ Len(t) > k /\ t[Len(t) - k] = "v"
        THEN SubSeq(t, 1, Len(t) - k - 1)
        ELSE t

\* C5 as stated: for a URL .../abs/<id>, .../pdf/<id>.pdf or .../<id>, with or
\* without a version suffix, the identifier handed to the lookup is <id> with
\* only the trailing version suffix (and the .pdf of the pdf shape) removed; a
\* 'v' elsewhere in <id> stays.
C5_IdentifierExtraction ==
    (Resolved /\ given.shape \in {"abs", "pdf", "last"})
        => paper_id = Str(WithoutVersion(given.tail))

\* the text a successful generic fetch put into the record
FetchedText == resolved.content.s

\* x is the first n characters of s
IsPrefixOfLength(x, s, n) ==
    /\ Len(x) = n
    /\ n <= Len(s)
    /\ x = SubSeq(s, 1, n)

\* the content embedded in the prompt of an article: what stands between the
\* "URL: <url> CONTENT:" header and the closing piece of the template
EmbeddedContent(pr) == SubSeq(pr, Len(BasePrompt) + Len(url) + 3, Len(pr) - 1)

\* pr is a prompt for the article that embeds the first min(len, 10000)
\* characters of the fetched text
EmbedsTruncated(pr) ==
    /\ SubSeq(pr, 1, Len(BasePrompt) + Len(url) + 2)
          = BasePrompt \o <<"\nURL: ">> \o url \o <<"\nCONTENT:\n">>
    /\ IsPrefixOfLength(EmbeddedContent(pr), FetchedText, Min(Len(FetchedText), 10000))

\* C6: after a successful generic fetch of a body of n characters the record's
\* content is the first min(n, 50000) characters of the response, and every
\* prompt made from the record embeds the first min(len(content), 10000)
\* characters of that content.
C6_Truncation ==
    (Resolved /\ response.kind = "ok")
        => /\ resolved.type = "article"
           /\ IsPrefixOfLength(FetchedText, response.text,
                               Min(Len(response.text), 50000))
           /\ op = "analyze" => (prompt # None /\ EmbedsTruncated(prompt.s))
           /\ \A i \in 1..Len(formatted) :
                 formatted[i].exc = "none" /\ EmbedsTruncated(formatted[i].value)

C6_Witness ==
    /\ op = "analyze"
    /\ response.kind = "ok"
    /\ Len(response.text) = 60000
    /\ Len(FetchedText) = 50000
    /\ prompt # None
    /\ Len(EmbeddedContent(prompt.s)) = 10000

\* C7: an analyze call makes at most one completion call; when that call fails
\* analyze returns the error text, there is no second call, and no exception
\* leaves analyze.
C7_CompletionAtMostOnce ==
    op = "analyze"
        => /\ completionCalls <= 1
           /\ exc = "none"
           /\ completion.kind \in {"error", "empty"}
                 => /\ completionCalls = 1
                    /\ result = Str(ErrorPrefix \o completion.message)

C7_Witness ==
    /\ op = "analyze"
    /\ completion.kind = "error"
    /\ completionCalls = 1
    /\ result = Str(ErrorPrefix \o completion.message)

\* C8: create_analysis_prompt leaves every field of the record as it was, and
\* a second call on the record gives the same outcome as the first.
C8_FormatIdempotent ==
    op = "create_analysis_prompt"
        => /\ record = resolved
           /\ \A i \in 1..Len(formatted) : formatted[i] = formatted[1]

C8_Witness ==
    /\ op = "create_analysis_prompt"
    /\ Len(formatted) >= 2
    /\ formatted[2].exc = "none"
    /\ resolved.type = "article"
    /\ Len(FetchedText) > 0

\* C9 as stated: for every category, when the record needs pasted content and
\* the caller passes non-empty text, the record is amended with the text and
\* the prompt sent to the completion service holds the text in its content
\* block and no absent-content placeholder.
C9_PastedTextReachesPrompt ==
    (op = "analyze" /\ resolved.needs_paste /\ ~NoTextSupplied)
        => /\ record.content = pasted
           /\ prompt # None
           /\ Contains(ContentBlock(prompt.s), pasted.s)
           /\ ~Contains(ContentBlock(prompt.s), ContentNotProvided)
           /\ ~Contains(ContentBlock(prompt.s), NotAvailable)

\* C10 as stated: create_analysis_prompt on a tweet or unknown record as
\* fetch_content returned it, content None, returns a prompt whose content
\* block holds the URL and the 'Content not provided' placeholder; it does not
\* fail and does not render None as text.
C10_PlaceholderForAbsentContent ==
    (/\ op = "create_analysis_prompt"
     /\ resolved.type \in {"tweet", "unknown"}
     /\ resolved.content = None)
        => \A i \in 1..Len(formatted) :
              /\ formatted[i].exc = "none"
              /\ Contains(ContentBlock(formatted[i].value), url)
              /\ Contains(ContentBlock(formatted[i].value), ContentNotProvided)
              /\ ~Contains(ContentBlock(formatted[i].value), <<"N", "o", "n", "e">>)

===========================================================================
